---------------------------- MODULE Spec2Model ----------------------------
(***************************************************************************)
(* Checkpoint credential capture scripts: proximity token (src/rfid.py,    *)
(* hw/rfid.py) and fingerprint sensor (src/fpm.py).                        *)
(*                                                                         *)
(* One call runs at a time.  A call is a sequence of steps; `pc` is the    *)
(* position of the running call in its function body.  The token and the   *)
(* finger are the environment: they come and go while a call is running.   *)
(* Time is counted in ticks of half a second (the polling interval), and   *)
(* only as the time elapsed since start_time of the running token call.    *)
(***************************************************************************)
EXTENDS Integers, Sequences, FiniteSets, TLC

\* ------------------------------------------------------------------ bounds
MaxId == 2          \* write_rfid is called with the ids 9 .. 8 + MaxId
MaxSlot == 2        \* the sensor's template store has the slots 1 .. MaxSlot

\* ------------------------------------------------------- program constants
WRITE_TIMEOUT_S == 30   \* write_rfid: time.time() - start_time > 30
READ_TIMEOUT_S == 30    \* read_rfid:  time.time() - start_time > 30
TICKS_PER_S == 2        \* time.sleep(0.5): one tick is half a second
ID_SIZE == 5            \* id_generator(size=5, ...)
PAUSE_S == 2            \* enroll_fp: time.sleep(2)

Ids == 9..(8 + MaxId)
Slots == 1..MaxSlot
Fingers == {1, 2}
GenChars == {65, 49}    \* "A" and "1", of ascii_uppercase + digits

\* ----------------------------------------------------------- Python values
\* A value is a type tag and a sequence of numbers: None, a bool, an int or a
\* str (its character codes).  5 and "5" are different values.
None == [t |-> "none", v |-> <<>>]
PyBool(b) == [t |-> "bool", v |-> <<IF b THEN 1 ELSE 0>>]
PyInt(n) == [t |-> "int", v |-> <<n>>]
PyStr(s) == [t |-> "str", v |-> s]

\* str(n) for n >= 0: the decimal digits of n as character codes.
RECURSIVE str(_)
str(n) == IF n < 10 THEN <<48 + n>> ELSE Append(str(n \div 10), 48 + (n % 10))

\* id_generator(): ID_SIZE characters drawn from chars (here: all the same
\* character, one code per character of GenChars).
id_generator == {[k \in 1..ID_SIZE |-> c] : c \in GenChars}

VARIABLES
    device,      \* "token" or "sensor": the device this rig's scripts drive
    op,          \* the running call, or "idle"
    pc,          \* position in the running call
    arg,         \* the argument of the running call (0: none)
    exit,        \* the path on which the call left its body ("" while running)
    retval,      \* the value the call returned
    \* --- token reader (RPi.GPIO + SimpleMFRC522) and the token
    session,     \* "none", "acquired" (SimpleMFRC522() done), "released"
    cleanups,    \* gpio.cleanup() calls of the running call
    elapsed,     \* ticks since start_time, saturating above the timeout
    tagPresent,  \* a token is in the reader's field
    tagData,     \* the text stored on the token
    wrote,       \* r.write calls of the running call
    detected,    \* a probe of the running call returned a tag id
    probeErr,    \* a probe of the running call raised
    lastWrite    \* id of the write_rfid call that just succeeded on the token
                 \* now in the field, with no other call since; 0: none

    \* --- fingerprint sensor (serial.Serial + Adafruit_Fingerprint)
VARIABLES
    uartOpen,    \* the serial port opened at import of fpm.py is open
    finger,      \* the finger on the sensor (0: none)
    image,       \* the sensor's image buffer: the finger last captured
    buf,         \* the sensor's two feature buffers
    store,       \* the sensor's template store: slot -> finger (0: empty)
    i,           \* enroll_fp's loop variable
    finger_id,   \* fpm.finger_id
    confidence,  \* fpm.confidence
    convOk,      \* the buffers image_2_tz filled with OK in the running call
    modelOk,     \* create_model returned OK in the running call
    stores,      \* store_model calls of the running call
    storeOk,     \* store_model returned OK in the running call
    spin,        \* flips at each pass of a `while get_image() != OK: pass`
    lastEnroll   \* <<slot, finger>> of the enroll_fp call that just
                 \* succeeded, with no other call since; <<0, 0>>: none

    \* --- the process: one run of a script (`if __name__ == "__main__":`)
VARIABLES
    script,      \* the script the process runs ("": no process)
    argv,        \* sys.argv[1:], each argument its character codes
    calls,       \* the functions the __main__ block has called, in order
    outcome,     \* how the process ended ("" while it runs)
    exitCode,    \* the exit status of the process (-1 while it runs)
    cancelReq    \* the caller has asked to cancel the running call

    \* --- pacing
VARIABLES
    sinceProbe,  \* "none": the call has not probed its device; "probed": it
                 \* has, and has not slept since; "slept": it has slept since
    waited       \* ticks enroll_fp has slept since image_2_tz(1) returned OK

paceVars == <<sinceProbe, waited>>
runVars == <<script, argv, calls, outcome, exitCode, cancelReq>>
sensorVars == <<uartOpen, finger, image, buf, store, i, finger_id,
                confidence, convOk, modelOk, stores, storeOk, spin,
                lastEnroll>>
tokenVars == <<session, cleanups, elapsed, tagPresent, tagData, wrote,
               detected, probeErr, lastWrite>>
callVars == <<op, pc, arg, exit, retval>>
vars == <<device, runVars, paceVars, callVars, tokenVars, sensorVars>>

WriteTimeout == WRITE_TIMEOUT_S * TICKS_PER_S
ReadTimeout == READ_TIMEOUT_S * TICKS_PER_S
Timeout(o) == IF o = "write" THEN WriteTimeout ELSE ReadTimeout

Min(a, b) == IF a < b THEN a ELSE b


\* ------------------------------------------------------------ the process
\* int(s) of Python for an unsigned decimal literal: defined when s is one or
\* more digits, ValueError otherwise.
IsInt(s) == s # <<>> /\ \A k \in 1..Len(s) : s[k] \in 48..57
RECURSIVE int(_)
int(s) ==
    IF Len(s) = 1 THEN s[1] - 48
    ELSE 10 * int(SubSeq(s, 1, Len(s) - 1)) + (s[Len(s)] - 48)

\* The command lines a script is started with, and the lines typed at
\* input(): "1", "2", "3", a decimal id, "x".
NotANumber == <<120>>
RfidArgvs ==
    {<<>>, <<str(1)>>, <<str(1), NotANumber>>}
        \cup {<<str(1), str(id)>> : id \in Ids}
HwRfidArgvs == {<<>>, <<str(1)>>}
FpmArgvs == {<<>>, <<str(1)>>, <<str(2)>>, <<str(3)>>}
StdinLines == {str(k) : k \in 1..(MaxSlot + 1)} \cup {NotANumber}

\* The interpreter starts a script.
StartProcess(name, args) ==
    /\ op = "idle"
    /\ op' = "main"
    /\ script' = name
    /\ argv' \in args
    /\ calls' = <<>> /\ outcome' = "" /\ exitCode' = -1
    /\ cancelReq' = FALSE

\* The __main__ block calls a function.
MainCalls(name, o) ==
    /\ op = "main" /\ pc = "main" /\ script = name
    /\ calls' = Append(calls, o)
    /\ UNCHANGED <<script, argv, outcome, exitCode, cancelReq>>

\* The __main__ block ends after the function it called: no script calls
\* sys.exit, so the status is 0, or 1 with a traceback when the exception of
\* the function left the script.
MainEnds(path) ==
    /\ op' = "main" /\ pc' = "exited"
    /\ outcome' = IF path = "raised" THEN "unhandled" ELSE path
    /\ exitCode' = IF path = "raised" THEN 1 ELSE 0
    /\ UNCHANGED <<script, argv, calls, cancelReq>>

\* An exception raised in the __main__ block itself ends the process.
MainRaises(name) ==
    /\ op = "main" /\ script = name
    /\ pc' = "exited"
    /\ outcome' = "unhandled" /\ exitCode' = 1
    /\ UNCHANGED <<script, argv, calls, cancelReq, op, arg, exit, retval>>

\* The process is gone; the operating system closes its serial port.
ProcessExit ==
    /\ op = "main" /\ pc = "exited"
    /\ op' = "idle" /\ pc' = "idle"
    /\ script' = "" /\ argv' = <<>> /\ calls' = <<>>
    /\ outcome' = "" /\ exitCode' = -1
    /\ cancelReq' = FALSE
    /\ uartOpen' = FALSE
    /\ UNCHANGED <<paceVars, device, arg, exit, retval, tokenVars, finger, image, buf,
                   store, i, finger_id, confidence, convOk, modelOk, stores,
                   storeOk, spin, lastEnroll>>

\* ------------------------------------------------------------- environment
\* The caller asks to cancel the call in flight.  write_rfid, read_rfid and
\* enroll_fp take no cancellation argument and their loops test nothing but
\* the clock and the device: the request changes nothing the call reads.
Cancel ==
    /\ op \in {"write", "read", "enroll"} /\ pc # "done"
    /\ ~cancelReq
    /\ cancelReq' = TRUE
    /\ UNCHANGED <<paceVars, script, argv, calls, outcome, exitCode, device, callVars,
                   tokenVars, sensorVars>>

\* A token enters the reader's field.
PlaceToken ==
    /\ device = "token" /\ op \notin {"idle", "main"} /\ pc # "done"
    /\ ~tagPresent
    /\ tagPresent' = TRUE
    /\ UNCHANGED <<runVars, paceVars, device, sensorVars, callVars, session, cleanups, elapsed, tagData,
                   wrote, detected, probeErr, lastWrite>>

\* The token leaves the reader's field.
RemoveToken ==
    /\ device = "token" /\ op \notin {"idle", "main"} /\ pc # "done"
    /\ tagPresent
    /\ tagPresent' = FALSE
    /\ lastWrite' = 0
    /\ UNCHANGED <<runVars, paceVars, device, sensorVars, callVars, session, cleanups, elapsed, tagData,
                   wrote, detected, probeErr>>

\* What a call finds when it starts: per-call bookkeeping reset.
BeginCall(o, a) ==
    /\ device = "token"
    /\ op = "main" /\ pc = "main"
    /\ op' = o /\ arg' = a /\ pc' = "acquire"
    /\ exit' = "" /\ retval' = None
    /\ sinceProbe' = "none" /\ waited' = 0
    /\ cleanups' = 0 /\ wrote' = 0 /\ detected' = FALSE /\ probeErr' = FALSE
    /\ elapsed' = 0
    /\ session' = "none"

\* r = SimpleMFRC522(): the constructor takes the GPIO pins and the SPI bus,
\* or raises, and then the exception leaves the function (it is outside try).
AcquireReader(o) ==
    /\ op = o /\ pc = "acquire"
    /\ \/ /\ session' = "acquired" /\ pc' = "start"
          /\ UNCHANGED <<exit, retval>>
       \/ /\ session' = "none" /\ pc' = "done"
          /\ exit' = "raised" /\ retval' = None
    /\ UNCHANGED <<runVars, paceVars, device, sensorVars, op, arg, cleanups, elapsed, tagPresent, tagData,
                   wrote, detected, probeErr, lastWrite>>

\* Variant of Cleanup: the finally block without gpio.cleanup().
Cleanup_NoRelease(o) ==
    /\ op = o /\ pc = "finally"
    /\ pc' = "done"
    /\ UNCHANGED <<runVars, paceVars, device, sensorVars, op, arg, exit, retval, session,
                   cleanups, elapsed, tagPresent, tagData, wrote, detected,
                   probeErr, lastWrite>>

\* finally: gpio.cleanup()
Cleanup(o) ==
    /\ op = o /\ pc = "finally"
    /\ cleanups' = cleanups + 1
    /\ session' = "released"
    /\ pc' = "done"
    /\ UNCHANGED <<runVars, paceVars, device, sensorVars, op, arg, exit, retval, elapsed, tagPresent,
                   tagData, wrote, detected, probeErr, lastWrite>>

\* The token call is over: per-call bookkeeping cleared.
EndCall(o) ==
    /\ op = o /\ pc = "done"
    /\ MainEnds(exit)
    /\ arg' = 0
    /\ exit' = "" /\ retval' = None
    /\ sinceProbe' = "none" /\ waited' = 0
    /\ cleanups' = 0 /\ wrote' = 0 /\ detected' = FALSE /\ probeErr' = FALSE
    /\ elapsed' = 0 /\ session' = "none"

\* The values the return statements of write_rfid and read_rfid return.
ReturnValue(o, path, data) ==
    IF o = "write"
    THEN (IF path = "success" THEN PyBool(TRUE) ELSE PyBool(FALSE))
    ELSE (IF path = "success" THEN PyStr(data) ELSE None)

\* Variant of TimedOut: the loop without its timeout check.
TimedOut_Never(o, e) == FALSE

\* `if time.time() - start_time > 30`
TimedOut(o, e) == e > Timeout(o)

\* Variant of AfterTimeout: the timeout is noticed and the loop goes on.
AfterTimeout_Probe == "probe"

\* `return False` in the timeout branch of write_rfid: the loop is left for
\* the finally block.
AfterTimeout == "finally"

\* Variant of IsTag: the result of the probe is not looked at.
IsTag_Always(present) == TRUE

\* `if id_detected is not None` / `if id is not None`: r.read() gives the id
\* of the token in the field, None when there is none.
IsTag(present) == present

\* Variant of AfterProbeError: a probe that raised ends the loop.
AfterProbeError_Abort == "finally"

\* `except Exception as e: ... continue` around the probe: where the loop
\* goes on after a probe that raised.
AfterProbeError == "check"

\* Wall-clock time passes while a call is in its polling loop.
TimePasses ==
    /\ op \in {"write", "read"}
    /\ pc \in {"check", "probe", "sleep", "write"}
    /\ elapsed <= Timeout(op)
    /\ elapsed' = elapsed + 1
    /\ UNCHANGED <<runVars, paceVars, device, sensorVars, callVars, session, cleanups, tagPresent, tagData,
                   wrote, detected, probeErr, lastWrite>>

\* ------------------------------------------------- src/rfid.py: write_rfid
\* `python rfid.py ...` is started.
Run_rfid ==
    /\ device = "token"
    /\ StartProcess("src/rfid.py", RfidArgvs)
    /\ pc' = "main"
    /\ UNCHANGED <<paceVars, device, arg, exit, retval, tokenVars, sensorVars>>

\* if len(sys.argv) > 2 and sys.argv[1] == "1":
\* (sys.argv[0] is the script, so len(sys.argv) > 2 is Len(argv) > 1)
IsWriteRequest(a) == Len(a) > 1 /\ a[1] = str(1)

\* id_to_write = int(sys.argv[2]) raises ValueError.
main_rfid_raise ==
    /\ pc = "main" /\ IsWriteRequest(argv) /\ ~IsInt(argv[2])
    /\ MainRaises("src/rfid.py")
    /\ UNCHANGED <<paceVars, device, tokenVars, sensorVars>>

\* id_to_write = int(sys.argv[2]); write_rfid(id_to_write)
Call_write_rfid ==
    /\ MainCalls("src/rfid.py", "write")
    /\ IsWriteRequest(argv) /\ IsInt(argv[2])
    /\ BeginCall("write", int(argv[2]))
    /\ lastWrite' = 0
    /\ UNCHANGED <<device, sensorVars, tagPresent, tagData>>

write_rfid_acquire == AcquireReader("write")

\* start_time = time.time()
write_rfid_start ==
    /\ op = "write" /\ pc = "start"
    /\ elapsed' = 0
    /\ pc' = "check"
    /\ UNCHANGED <<runVars, paceVars, device, sensorVars, op, arg, exit, retval, session, cleanups,
                   tagPresent, tagData, wrote, detected, probeErr, lastWrite>>

\* if time.time() - start_time > 30: return False
write_rfid_check ==
    /\ op = "write" /\ pc = "check"
    /\ IF TimedOut("write", elapsed)
       THEN /\ exit' = "timeout"
            /\ retval' = ReturnValue("write", "timeout", <<>>)
            /\ pc' = AfterTimeout
       ELSE /\ pc' = "probe"
            /\ UNCHANGED <<exit, retval>>
    /\ UNCHANGED <<runVars, paceVars, device, sensorVars, op, arg, session, cleanups, elapsed, tagPresent,
                   tagData, wrote, detected, probeErr, lastWrite>>

\* try: id_detected, data = r.read()  except Exception: continue
\* if id_detected is not None: ... else fall to the sleep
write_rfid_probe ==
    /\ op = "write" /\ pc = "probe"
    /\ \/ /\ probeErr' = TRUE
          /\ pc' = AfterProbeError
          /\ UNCHANGED detected
       \/ /\ detected' = (detected \/ tagPresent)
          /\ pc' = IF IsTag(tagPresent) THEN "write" ELSE "sleep"
          /\ UNCHANGED probeErr
    /\ sinceProbe' = "probed"
    /\ UNCHANGED <<runVars, waited, device, sensorVars, op, arg, exit, retval, session, cleanups, elapsed,
                   tagPresent, tagData, wrote, lastWrite>>

\* r.write(str(id)); return True   -- or r.write raises: except: return False
\* (r.write waits for the token when it has left the field meanwhile)
write_rfid_write ==
    /\ op = "write" /\ pc = "write"
    /\ wrote' = wrote + 1
    /\ \/ /\ tagPresent
          /\ tagData' = str(arg)
          /\ exit' = "success"
          /\ retval' = ReturnValue("write", "success", <<>>)
       \/ /\ exit' = "fault"
          /\ retval' = ReturnValue("write", "fault", <<>>)
          /\ UNCHANGED tagData
    /\ pc' = "finally"
    /\ UNCHANGED <<runVars, paceVars, device, sensorVars, op, arg, session, cleanups, elapsed, tagPresent,
                   detected, probeErr, lastWrite>>

\* time.sleep(0.5)
write_rfid_sleep ==
    /\ op = "write" /\ pc = "sleep"
    /\ elapsed' = Min(elapsed + 1, WriteTimeout + 1)
    /\ pc' = "check"
    /\ sinceProbe' = "slept"
    /\ UNCHANGED <<runVars, waited, device, sensorVars, op, arg, exit, retval, session, cleanups,
                   tagPresent, tagData, wrote, detected, probeErr, lastWrite>>

write_rfid_finally == Cleanup("write")

\* The call is over; its caller has the value.
write_rfid_return ==
    /\ EndCall("write")
    /\ lastWrite' = IF exit = "success" /\ tagPresent THEN arg ELSE 0
    /\ UNCHANGED <<device, sensorVars, tagPresent, tagData>>

\* -------------------------------------------------- src/rfid.py: read_rfid
\* else: read_rfid()
Call_read_rfid ==
    /\ MainCalls("src/rfid.py", "read")
    /\ ~IsWriteRequest(argv)
    /\ BeginCall("read", 0)
    /\ UNCHANGED <<device, sensorVars, tagPresent, tagData, lastWrite>>

read_rfid_acquire == AcquireReader("read")

\* start_time = time.time()
read_rfid_start ==
    /\ op = "read" /\ pc = "start"
    /\ elapsed' = 0
    /\ pc' = "check"
    /\ UNCHANGED <<runVars, paceVars, device, sensorVars, op, arg, exit, retval, session, cleanups,
                   tagPresent, tagData, wrote, detected, probeErr, lastWrite>>

\* if time.time() - start_time > 30: return None
read_rfid_check ==
    /\ op = "read" /\ pc = "check"
    /\ IF TimedOut("read", elapsed)
       THEN /\ exit' = "timeout"
            /\ retval' = ReturnValue("read", "timeout", <<>>)
            /\ pc' = "finally"
       ELSE /\ pc' = "probe"
            /\ UNCHANGED <<exit, retval>>
    /\ UNCHANGED <<runVars, paceVars, device, sensorVars, op, arg, session, cleanups, elapsed, tagPresent,
                   tagData, wrote, detected, probeErr, lastWrite>>

\* try: id, data = r.read()  except Exception: continue
\* if id is not None: return data   else fall to the sleep
read_rfid_probe ==
    /\ op = "read" /\ pc = "probe"
    /\ \/ /\ probeErr' = TRUE
          /\ pc' = AfterProbeError
          /\ UNCHANGED <<detected, exit, retval>>
       \/ /\ detected' = (detected \/ tagPresent)
          /\ IF IsTag(tagPresent)
             THEN /\ exit' = "success"
                  /\ retval' = ReturnValue("read", "success", tagData)
                  /\ pc' = "finally"
             ELSE /\ pc' = "sleep"
                  /\ UNCHANGED <<exit, retval>>
          /\ UNCHANGED probeErr
    /\ sinceProbe' = "probed"
    /\ UNCHANGED <<runVars, waited, device, sensorVars, op, arg, session, cleanups, elapsed, tagPresent,
                   tagData, wrote, lastWrite>>

\* time.sleep(0.5)
read_rfid_sleep ==
    /\ op = "read" /\ pc = "sleep"
    /\ elapsed' = Min(elapsed + 1, ReadTimeout + 1)
    /\ pc' = "check"
    /\ sinceProbe' = "slept"
    /\ UNCHANGED <<runVars, waited, device, sensorVars, op, arg, exit, retval, session, cleanups,
                   tagPresent, tagData, wrote, detected, probeErr, lastWrite>>

read_rfid_finally == Cleanup("read")

read_rfid_return ==
    /\ EndCall("read")
    /\ lastWrite' = 0
    /\ UNCHANGED <<device, sensorVars, tagPresent, tagData>>

\* --------------------------------------------------- hw/rfid.py: write_rfid
\* `python hw/rfid.py ...` is started.
Run_hw_rfid ==
    /\ device = "token"
    /\ StartProcess("hw/rfid.py", HwRfidArgvs)
    /\ pc' = "main"
    /\ UNCHANGED <<paceVars, device, arg, exit, retval, tokenVars, sensorVars>>

\* if len(sys.argv) > 1 and sys.argv[1] == "1":
IsHwWriteRequest(a) == Len(a) > 0 /\ a[1] = str(1)

\* write_rfid()
Call_hw_write_rfid ==
    /\ MainCalls("hw/rfid.py", "hw_write")
    /\ IsHwWriteRequest(argv)
    /\ BeginCall("hw_write", 0)
    /\ lastWrite' = 0
    /\ UNCHANGED <<device, sensorVars, tagPresent, tagData>>

hw_write_rfid_acquire == AcquireReader("hw_write")

\* data = id_generator(); r.write(data)   -- or r.write raises: except
\* (r.write waits for a token to be in the field)
hw_write_rfid_write ==
    /\ op = "hw_write" /\ pc = "start"
    /\ wrote' = wrote + 1
    /\ \/ /\ tagPresent
          /\ \E data \in id_generator : tagData' = data
          /\ exit' = "normal"
       \/ /\ exit' = "fault"
          /\ UNCHANGED tagData
    /\ retval' = None
    /\ pc' = "finally"
    /\ UNCHANGED <<runVars, paceVars, device, sensorVars, op, arg, session, cleanups, elapsed,
                   tagPresent, detected, probeErr, lastWrite>>

hw_write_rfid_finally == Cleanup("hw_write")

hw_write_rfid_return ==
    /\ EndCall("hw_write")
    /\ lastWrite' = 0
    /\ UNCHANGED <<device, sensorVars, tagPresent, tagData>>

\* ---------------------------------------------------- hw/rfid.py: read_rfid
\* else: read_rfid()
Call_hw_read_rfid ==
    /\ MainCalls("hw/rfid.py", "hw_read")
    /\ ~IsHwWriteRequest(argv)
    /\ BeginCall("hw_read", 0)
    /\ lastWrite' = 0
    /\ UNCHANGED <<device, sensorVars, tagPresent, tagData>>

hw_read_rfid_acquire == AcquireReader("hw_read")

\* id, data = r.read(); print both   -- or r.read raises: except
hw_read_rfid_read ==
    /\ op = "hw_read" /\ pc = "start"
    /\ \/ /\ detected' = tagPresent
          /\ exit' = "normal"
          /\ UNCHANGED probeErr
       \/ /\ probeErr' = TRUE
          /\ exit' = "fault"
          /\ UNCHANGED detected
    /\ retval' = None
    /\ pc' = "finally"
    /\ UNCHANGED <<runVars, paceVars, device, sensorVars, op, arg, session, cleanups, elapsed,
                   tagPresent, tagData, wrote, lastWrite>>

hw_read_rfid_finally == Cleanup("hw_read")

hw_read_rfid_return ==
    /\ EndCall("hw_read")
    /\ lastWrite' = 0
    /\ UNCHANGED <<device, sensorVars, tagPresent, tagData>>

\* ======================================================= src/fpm.py
Confidences == {50, 200}   \* scores the sensor reports with a match

\* ---- the sensor's answers (status codes of adafruit_fingerprint)
\* get_image: OK when a finger is on the sensor.
get_image == IF finger # 0 THEN {"OK"} ELSE {"NOFINGER"}
\* image_2_tz: OK, or the image is too messy.
image_2_tz == {"OK", "IMAGEMESS"}
\* create_model: OK only when both buffers hold features of one finger.
create_model ==
    (IF buf[1] # 0 /\ buf[1] = buf[2] THEN {"OK"} ELSE {"ENROLLMISMATCH"})
        \cup {"PACKETRECIEVEERR"}
\* store_model(slot): OK only for a slot of the store.
store_model(slot) ==
    (IF slot \in Slots THEN {"OK"} ELSE {"BADLOCATION"}) \cup {"FLASHERR"}
\* finger_search: OK when a stored template matches buffer 1.
Matches == {s \in Slots : store[s] # 0 /\ store[s] = buf[1]}
finger_search ==
    (IF Matches # {} THEN {"OK"} ELSE {"NOTFOUND"}) \cup {"PACKETRECIEVEERR"}

\* Variant of NotOK: the status of the sensor call is not looked at.
NotOK_Never(r) == FALSE

\* `!= adafp.OK` and `== adafp.OK`
NotOK(r) == r # "OK"
IsOK(r) == r = "OK"

\* `python fpm.py ...` is started.
Run_fpm ==
    /\ device = "sensor"
    /\ StartProcess("src/fpm.py", FpmArgvs)
    /\ pc' = "import"
    /\ UNCHANGED <<paceVars, device, arg, exit, retval, tokenVars, sensorVars>>

\* A function of fpm.py is called: per-call bookkeeping reset.
BeginSensorCall(o, a, first) ==
    /\ device = "sensor"
    /\ MainCalls("src/fpm.py", o)
    /\ op' = o /\ arg' = a /\ pc' = first
    /\ exit' = "" /\ retval' = None
    /\ sinceProbe' = "none" /\ waited' = 0
    /\ i' = 0 /\ finger_id' = 0 /\ confidence' = 0
    /\ convOk' = {} /\ modelOk' = FALSE /\ stores' = 0 /\ storeOk' = FALSE
    /\ image' = 0 /\ buf' = [b \in 1..2 |-> 0] /\ spin' = FALSE
    /\ UNCHANGED <<device, tokenVars, uartOpen, finger, store>>

\* uart = serial.Serial("/dev/serial0", ...); fpm = Adafruit_Fingerprint(uart)
\* at import: the port is opened, or the import raises.
\* This runs before the __main__ block.
fpm_import ==
    /\ op = "main" /\ pc = "import" /\ script = "src/fpm.py"
    /\ \/ /\ uartOpen' = TRUE /\ pc' = "main"
          /\ UNCHANGED <<runVars, op>>
       \/ /\ uartOpen' = FALSE
          /\ MainEnds("raised")
    /\ UNCHANGED <<paceVars, device, tokenVars, arg, exit, retval, finger, image, buf,
                   store, i, finger_id, confidence, convOk, modelOk, stores,
                   storeOk, spin, lastEnroll>>

\* sys.argv[1] raises IndexError when no option was given;
\* fp_id = int(input("enter an ID (1-127): ")) raises ValueError.
main_fpm_raise ==
    /\ pc = "main"
    /\ \/ argv = <<>>
       \/ argv # <<>> /\ argv[1] = str(2)
            /\ \E line \in StdinLines : ~IsInt(line)
    /\ MainRaises("src/fpm.py")
    /\ UNCHANGED <<paceVars, device, tokenVars, sensorVars>>

\* else: print("No such option")
main_fpm_no_option ==
    /\ op = "main" /\ pc = "main" /\ script = "src/fpm.py"
    /\ argv # <<>> /\ argv[1] \notin {str(1), str(2)}
    /\ pc' = "exited"
    /\ outcome' = "nooption" /\ exitCode' = 0
    /\ UNCHANGED <<paceVars, script, argv, calls, cancelReq, device, op, arg, exit,
                   retval, tokenVars, sensorVars>>

\* A finger is put on the sensor, or lifted, while a call runs.
PlaceFinger ==
    /\ device = "sensor" /\ op \notin {"idle", "main"} /\ pc # "done"
    /\ finger = 0
    /\ \E f \in Fingers : finger' = f
    /\ UNCHANGED <<runVars, paceVars, device, tokenVars, callVars, uartOpen, image, buf, store,
                   i, finger_id, confidence, convOk, modelOk, stores, storeOk,
                   spin, lastEnroll>>

LiftFinger ==
    /\ device = "sensor" /\ op \notin {"idle", "main"} /\ pc # "done"
    /\ finger # 0
    /\ finger' = 0
    /\ UNCHANGED <<runVars, paceVars, device, tokenVars, callVars, uartOpen, image, buf, store,
                   i, finger_id, confidence, convOk, modelOk, stores, storeOk,
                   spin, lastEnroll>>

\* An exception raised by a sensor call leaves the function: fpm.py has no try.
Raised ==
    /\ exit' = "raised" /\ retval' = None /\ pc' = "done"

\* The values the return statements of get_fp and enroll_fp return
\* (a function that ends without return, or with a bare return, returns None).
FpReturnValue(path, id) ==
    IF path \in {"match", "success"} THEN PyInt(id) ELSE None

\* The sensor call is over and the __main__ block ends.  The sensor's buffers
\* and the finger are not read again before the next call overwrites them.
EndSensorCall(o) ==
    /\ op = o /\ pc = "done"
    /\ MainEnds(exit)
    /\ arg' = 0
    /\ exit' = "" /\ retval' = None
    /\ sinceProbe' = "none" /\ waited' = 0
    /\ finger' = 0 /\ image' = 0 /\ buf' = [b \in 1..2 |-> 0]
    /\ i' = 0 /\ finger_id' = 0 /\ confidence' = 0
    /\ convOk' = {} /\ modelOk' = FALSE /\ stores' = 0 /\ storeOk' = FALSE
    /\ spin' = FALSE
    /\ UNCHANGED <<device, tokenVars, uartOpen, store>>

\* while fpm.get_image() != adafp.OK: pass
\* One call of get_image: on OK the image is taken and the loop is left, else
\* the loop goes round at once; or get_image raises.
CaptureLoop(o) ==
    /\ op = o /\ pc = "capture"
    /\ \/ \E r \in get_image :
             IF NotOK(r)
             THEN /\ spin' = ~spin
                  /\ UNCHANGED <<image, pc, exit, retval>>
             ELSE /\ image' = finger
                  /\ pc' = "convert"
                  /\ UNCHANGED <<spin, exit, retval>>
       \/ /\ Raised
          /\ UNCHANGED <<image, spin>>
    /\ sinceProbe' = "probed"
    /\ UNCHANGED <<runVars, waited, device, tokenVars, op, arg, uartOpen, finger, buf, store,
                   i, finger_id, confidence, convOk, modelOk, stores, storeOk,
                   lastEnroll>>

\* ------------------------------------------------------------------ get_fp
\* if sys.argv[1] == "1": get_fp()
Call_get_fp ==
    /\ argv # <<>> /\ argv[1] = str(1)
    /\ BeginSensorCall("get_fp", 0, "capture")
    /\ UNCHANGED lastEnroll

get_fp_capture == CaptureLoop("get_fp")

\* if fpm.image_2_tz(1) != adafp.OK: return
get_fp_convert ==
    /\ op = "get_fp" /\ pc = "convert"
    /\ \/ \E r \in image_2_tz :
             /\ buf' = IF r = "OK" THEN [buf EXCEPT ![1] = image] ELSE buf
             /\ convOk' = IF r = "OK" THEN convOk \cup {1} ELSE convOk
             /\ IF NotOK(r)
                THEN /\ exit' = "convfail"
                     /\ retval' = FpReturnValue("convfail", 0)
                     /\ pc' = "done"
                ELSE /\ pc' = "search"
                     /\ UNCHANGED <<exit, retval>>
       \/ /\ Raised
          /\ UNCHANGED <<buf, convOk>>
    /\ UNCHANGED <<runVars, paceVars, device, tokenVars, op, arg, uartOpen, finger, image, store,
                   i, finger_id, confidence, modelOk, stores, storeOk, spin,
                   lastEnroll>>

\* if fpm.finger_search() == adafp.OK: fp_id = fpm.finger_id; return fp_id
\* else: print("No Match Found")
get_fp_search ==
    /\ op = "get_fp" /\ pc = "search"
    /\ \/ \E r \in finger_search :
             /\ IF r = "OK"
                THEN /\ \E s \in Matches : finger_id' = s
                     /\ \E c \in Confidences : confidence' = c
                ELSE UNCHANGED <<finger_id, confidence>>
             /\ IF IsOK(r)
                THEN /\ exit' = "match"
                     /\ retval' = FpReturnValue("match", finger_id')
                ELSE /\ exit' = IF r = "NOTFOUND" THEN "nomatch"
                                                  ELSE "searchfail"
                     /\ retval' = FpReturnValue(exit', 0)
             /\ pc' = "done"
       \/ /\ Raised
          /\ UNCHANGED <<finger_id, confidence>>
    /\ UNCHANGED <<runVars, paceVars, device, tokenVars, op, arg, uartOpen, finger, image, buf,
                   store, i, convOk, modelOk, stores, storeOk, spin,
                   lastEnroll>>

get_fp_return ==
    /\ EndSensorCall("get_fp")
    /\ lastEnroll' = <<0, 0>>

\* --------------------------------------------------------------- enroll_fp
\* fp_id = int(input("enter an ID (1-127): ")): any integer, also one that is
\* no slot of the store.
\* elif sys.argv[1] == "2": ...; enroll_fp(fp_id)
Call_enroll_fp ==
    /\ argv # <<>> /\ argv[1] = str(2)
    /\ \E line \in StdinLines :
          IsInt(line) /\ BeginSensorCall("enroll", int(line), "for")
    /\ lastEnroll' = <<0, 0>>

\* Variant of InRange: range(1, 2), a single capture.
InRange_Once(k) == 1 <= k /\ k < 2

\* range(1, 3)
InRange(k) == 1 <= k /\ k < 3

\* for i in range(1, 3):   -- after the loop: create_model
enroll_fp_for ==
    /\ op = "enroll" /\ pc = "for"
    /\ IF InRange(i + 1)
       THEN i' = i + 1 /\ pc' = "capture"
       ELSE i' = i /\ pc' = "create"
    /\ UNCHANGED <<runVars, paceVars, device, tokenVars, op, arg, exit, retval, uartOpen, finger,
                   image, buf, store, finger_id, confidence, convOk, modelOk,
                   stores, storeOk, spin, lastEnroll>>

enroll_fp_capture == CaptureLoop("enroll")

\* Variant of PauseAfter: no pause between the two captures.
PauseAfter_Never(k) == FALSE

\* `if i == 1:` before time.sleep(2)
PauseAfter(k) == k = 1

\* if fpm.image_2_tz(i) != adafp.OK: return
\* if i == 1: ... time.sleep(2)
enroll_fp_convert ==
    /\ op = "enroll" /\ pc = "convert"
    /\ \/ \E r \in image_2_tz :
             /\ buf' = IF r = "OK" THEN [buf EXCEPT ![i] = image] ELSE buf
             /\ convOk' = IF r = "OK" THEN convOk \cup {i} ELSE convOk
             /\ IF NotOK(r)
                THEN /\ exit' = "convfail"
                     /\ retval' = FpReturnValue("convfail", arg)
                     /\ pc' = "done"
                ELSE /\ pc' = IF PauseAfter(i) THEN "pause" ELSE "for"
                     /\ UNCHANGED <<exit, retval>>
       \/ /\ Raised
          /\ UNCHANGED <<buf, convOk>>
    /\ UNCHANGED <<runVars, paceVars, device, tokenVars, op, arg, uartOpen, finger, image, store,
                   i, finger_id, confidence, modelOk, stores, storeOk, spin,
                   lastEnroll>>

\* time.sleep(2)
enroll_fp_pause ==
    /\ op = "enroll" /\ pc = "pause"
    /\ pc' = "for"
    /\ waited' = waited + PAUSE_S * TICKS_PER_S
    /\ sinceProbe' = "slept"
    /\ UNCHANGED <<runVars, device, tokenVars, op, arg, exit, retval, sensorVars>>

\* if fpm.create_model() != adafp.OK: return
enroll_fp_create ==
    /\ op = "enroll" /\ pc = "create"
    /\ \/ \E r \in create_model :
             /\ modelOk' = (r = "OK")
             /\ IF NotOK(r)
                THEN /\ exit' = IF r = "ENROLLMISMATCH" THEN "mismatch"
                                                        ELSE "createfail"
                     /\ retval' = FpReturnValue(exit', arg)
                     /\ pc' = "done"
                ELSE /\ pc' = "store"
                     /\ UNCHANGED <<exit, retval>>
       \/ /\ Raised
          /\ UNCHANGED modelOk
    /\ UNCHANGED <<runVars, paceVars, device, tokenVars, op, arg, uartOpen, finger, image, buf,
                   store, i, finger_id, confidence, convOk, stores, storeOk,
                   spin, lastEnroll>>

\* if fpm.store_model(fp_id) == adafp.OK: return fp_id
\* else: print("Registration failed")
enroll_fp_store ==
    /\ op = "enroll" /\ pc = "store"
    /\ stores' = stores + 1
    /\ \/ \E r \in store_model(arg) :
             /\ store' = IF r = "OK" THEN [store EXCEPT ![arg] = buf[1]]
                                     ELSE store
             /\ storeOk' = (r = "OK")
             /\ exit' = IF IsOK(r) THEN "success" ELSE "storefail"
             /\ retval' = FpReturnValue(exit', arg)
             /\ pc' = "done"
       \/ /\ Raised
          /\ UNCHANGED <<store, storeOk>>
    /\ UNCHANGED <<runVars, paceVars, device, tokenVars, op, arg, uartOpen, finger, image, buf,
                   i, finger_id, confidence, convOk, modelOk, spin,
                   lastEnroll>>

enroll_fp_return ==
    /\ EndSensorCall("enroll")
    /\ lastEnroll' = IF exit = "success" THEN <<arg, buf[1]>> ELSE <<0, 0>>

\* ----------------------------------------------------------- specification
Init ==
    /\ device \in {"token", "sensor"}
    /\ op = "idle" /\ pc = "idle" /\ arg = 0
    /\ script = "" /\ argv = <<>> /\ calls = <<>>
    /\ outcome = "" /\ exitCode = -1 /\ cancelReq = FALSE
    /\ sinceProbe = "none" /\ waited = 0
    /\ exit = "" /\ retval = None
    /\ session = "none" /\ cleanups = 0 /\ elapsed = 0
    /\ tagPresent \in (IF device = "token" THEN BOOLEAN ELSE {FALSE})
    /\ tagData = <<>>
    /\ wrote = 0 /\ detected = FALSE /\ probeErr = FALSE
    /\ lastWrite = 0
    /\ uartOpen = FALSE /\ finger = 0 /\ image = 0
    /\ buf = [b \in 1..2 |-> 0]
    /\ store = [s \in Slots |-> 0]
    /\ i = 0 /\ finger_id = 0 /\ confidence = 0
    /\ convOk = {} /\ modelOk = FALSE /\ stores = 0 /\ storeOk = FALSE
    /\ spin = FALSE
    /\ lastEnroll = <<0, 0>>

Next ==
    \/ Run_rfid \/ Run_hw_rfid \/ Run_fpm \/ ProcessExit
    \/ main_rfid_raise \/ fpm_import \/ main_fpm_raise \/ main_fpm_no_option
    \/ PlaceToken \/ RemoveToken \/ TimePasses \/ Cancel
    \/ Call_write_rfid \/ write_rfid_acquire \/ write_rfid_start
    \/ write_rfid_check \/ write_rfid_probe \/ write_rfid_write
    \/ write_rfid_sleep \/ write_rfid_finally \/ write_rfid_return
    \/ Call_read_rfid \/ read_rfid_acquire \/ read_rfid_start
    \/ read_rfid_check \/ read_rfid_probe \/ read_rfid_sleep
    \/ read_rfid_finally \/ read_rfid_return
    \/ Call_hw_write_rfid \/ hw_write_rfid_acquire \/ hw_write_rfid_write
    \/ hw_write_rfid_finally \/ hw_write_rfid_return
    \/ Call_hw_read_rfid \/ hw_read_rfid_acquire \/ hw_read_rfid_read
    \/ hw_read_rfid_finally \/ hw_read_rfid_return
    \/ PlaceFinger \/ LiftFinger
    \/ Call_get_fp \/ get_fp_capture \/ get_fp_convert
    \/ get_fp_search \/ get_fp_return
    \/ Call_enroll_fp \/ enroll_fp_for
    \/ enroll_fp_capture \/ enroll_fp_convert \/ enroll_fp_pause
    \/ enroll_fp_create \/ enroll_fp_store \/ enroll_fp_return

Spec == Init /\ [][Next]_vars

\* The interpreter keeps running the process, and the clock keeps running.
Program ==
    \/ main_rfid_raise \/ fpm_import \/ main_fpm_raise \/ main_fpm_no_option
    \/ Call_write_rfid \/ Call_read_rfid \/ Call_hw_write_rfid
    \/ Call_hw_read_rfid \/ Call_get_fp \/ Call_enroll_fp \/ ProcessExit
    \/ write_rfid_acquire \/ write_rfid_start \/ write_rfid_check
    \/ write_rfid_probe \/ write_rfid_write \/ write_rfid_sleep
    \/ write_rfid_finally \/ write_rfid_return
    \/ read_rfid_acquire \/ read_rfid_start \/ read_rfid_check
    \/ read_rfid_probe \/ read_rfid_sleep \/ read_rfid_finally
    \/ read_rfid_return
    \/ hw_write_rfid_acquire \/ hw_write_rfid_write \/ hw_write_rfid_finally
    \/ hw_write_rfid_return
    \/ hw_read_rfid_acquire \/ hw_read_rfid_read \/ hw_read_rfid_finally
    \/ hw_read_rfid_return
    \/ get_fp_capture \/ get_fp_convert \/ get_fp_search
    \/ get_fp_return
    \/ enroll_fp_for \/ enroll_fp_capture
    \/ enroll_fp_convert \/ enroll_fp_pause \/ enroll_fp_create
    \/ enroll_fp_store \/ enroll_fp_return

FairSpec == Spec /\ WF_vars(Program) /\ WF_vars(TimePasses)

\* ================================================================== claims
TokenOps == {"write", "read", "hw_write", "hw_read"}
PollOps == {"write", "read"}
SensorOps == {"get_fp", "enroll"}

\* C1: every token call that got its reader runs gpio.cleanup() exactly once
\* on its way out (token written or read, timeout, r.write raised, after any
\* number of probe errors), and no token call is over with the reader still
\* acquired.
C1_ReleasedOnEveryExit ==
    op \in TokenOps =>
        /\ cleanups <= 1
        /\ (cleanups = 1 => pc = "done")
        /\ (pc = "done" => session # "acquired")
        /\ (pc = "done" /\ exit # "raised" =>
                cleanups = 1 /\ session = "released")

\* write_rfid is over after probe errors and a write that raised, released.
C1_Witness ==
    /\ op = "write" /\ pc = "done" /\ exit = "fault" /\ probeErr
    /\ cleanups = 1 /\ session = "released"

\* C2: when get_fp or enroll_fp is over, the sensor's serial port is closed.
C2_SensorReleased ==
    (op \in SensorOps /\ pc = "done") => ~uartOpen

\* C3: a probe that raises does not end write_rfid or read_rfid: the loop
\* goes on at its timeout check, a call leaves the loop from a probe only
\* with a token detected, and the fault return is taken only after r.write
\* was called.
C3_ProbeErrorContinues ==
    /\ [][(op \in PollOps /\ pc = "probe" /\ ~probeErr /\ probeErr')
            => (pc' = "check" /\ exit' = "" /\ op' = op)]_vars
    /\ [][(op \in PollOps /\ pc = "probe" /\ pc' \in {"finally", "done"})
            => (exit' = "success" /\ tagPresent)]_vars
    /\ [](op \in PollOps /\ exit = "fault" => wrote > 0)

\* read_rfid returned the token's data after a probe that raised.
C3_Witness ==
    /\ op = "read" /\ pc = "done" /\ probeErr /\ exit = "success"

\* C4: the value returned on timeout differs from the value returned when a
\* fault ends the call.
C4_TimeoutIsNotFailure ==
    (op \in PollOps /\ pc = "done" /\ exit = "timeout") =>
        retval # ReturnValue(op, "fault", <<>>)

\* C5: a polling loop in which no probe detects a token ends with the
\* timeout return, and every probe comes right after a timeout check that
\* found the time not yet up.
C5_TimeoutEndsLoop ==
    /\ \A o \in PollOps :
          (op = o /\ pc = "check") ~> (detected \/ exit = "timeout")
    /\ [][(op' \in PollOps /\ pc' = "probe" /\ pc # "probe")
            => (pc = "check" /\ elapsed <= Timeout(op))]_vars
    /\ [](op \in PollOps /\ exit = "timeout" => elapsed > Timeout(op))

\* read_rfid timed out after probes that raised and none that detected.
C5_Witness ==
    /\ op = "read" /\ pc = "done" /\ exit = "timeout"
    /\ probeErr /\ ~detected

\* C6: write_rfid calls r.write at most once, only after a probe detected a
\* token, as the next thing after that probe, and is over after it without
\* another probe.
C6_WriteOnDetection ==
    op = "write" =>
        /\ wrote <= 1
        /\ (wrote = 1 => detected /\ pc \in {"finally", "done"})
        /\ (detected => pc = "write" \/ wrote = 1)
        /\ (exit = "success" => wrote = 1)

\* write_rfid wrote the token once and returned True.
C6_Witness ==
    /\ op = "write" /\ pc = "done" /\ exit = "success" /\ wrote = 1
    /\ retval = PyBool(TRUE) /\ tagData = str(arg)

\* C7: read_rfid right after a successful write_rfid(id), the token in the
\* field throughout, returns id.
C7_RoundTrip ==
    (op = "read" /\ pc = "done" /\ lastWrite # 0 /\ exit = "success") =>
        retval = PyInt(lastWrite)

\* C8: get_fp with no finger ever on the sensor comes to an end.
C8_VerifyBounded ==
    (op = "get_fp" /\ pc = "capture") ~> (pc = "done" \/ finger # 0)

\* C9: get_fp returns the slot and the confidence on a match, and its
\* no-match value differs from its conversion-failure and search-fault values.
C9_VerifyOutcomesDistinct ==
    (op = "get_fp" /\ pc = "done") =>
        /\ (exit = "match" =>
                retval = [t |-> "pair", v |-> <<finger_id, confidence>>])
        /\ (exit = "nomatch" =>
                /\ retval # FpReturnValue("convfail", 0)
                /\ retval # FpReturnValue("searchfail", 0))

\* C10: enroll_fp calls store_model only after image_2_tz(1), image_2_tz(2)
\* and create_model all returned OK in this call, the store changes only in
\* that step, and the call returns the slot only after store_model returned
\* OK.
C10_StoreOnlyAfterModel ==
    /\ [](op = "enroll" =>
            /\ stores <= 1
            /\ (stores = 1 \/ pc = "store" => convOk = {1, 2} /\ modelOk)
            /\ (exit = "success" <=> storeOk)
            /\ (storeOk => stores = 1)
            /\ (retval # None => exit = "success" /\ retval = PyInt(arg)))
    /\ [][store' # store =>
            (op = "enroll" /\ pc = "store" /\ convOk = {1, 2} /\ modelOk
             /\ exit' = "success")]_vars

\* enroll_fp is over, both conversions OK, create_model reported a mismatch,
\* and store_model was not called.
C10_Witness ==
    /\ op = "enroll" /\ pc = "done" /\ exit = "mismatch"
    /\ convOk = {1, 2} /\ buf[1] # buf[2] /\ stores = 0
    /\ retval = None

\* C11: enroll_fp takes its steps in the order first capture, image_2_tz(1),
\* second capture, image_2_tz(2), create_model, store_model, end; none is
\* left out or moved, and a failed image_2_tz(1) ends the call with no second
\* capture, no create_model and no store_model.
C11_StepOK ==
    \/ pc = "for" /\ i = 0 /\ pc' = "capture" /\ i' = 1
    \/ pc = "capture" /\ pc' = "convert" /\ i' = i /\ image' # 0
    \/ pc = "convert" /\ i = 1 /\ pc' = "pause" /\ i' = 1 /\ convOk' = {1}
    \/ pc = "pause" /\ pc' = "for" /\ i' = 1
    \/ pc = "for" /\ i = 1 /\ pc' = "capture" /\ i' = 2
    \/ pc = "convert" /\ i = 2 /\ pc' = "for" /\ i' = 2 /\ convOk' = {1, 2}
    \/ pc = "for" /\ i = 2 /\ pc' = "create" /\ i' = 2
    \/ pc = "create" /\ pc' = "store" /\ modelOk'
    \/ /\ pc \in {"capture", "convert", "create"}
       /\ pc' = "done" /\ exit' # "success" /\ stores' = 0 /\ i' = i
    \/ pc = "store" /\ pc' = "done" /\ stores' = 1

C11_EnrollOrder ==
    /\ [][(op = "enroll" /\ op' = "enroll" /\ <<pc, i>> # <<pc', i'>>)
            => C11_StepOK]_vars
    /\ [](op = "enroll" /\ exit = "convfail" /\ i = 1 =>
            /\ convOk = {} /\ buf = [b \in 1..2 |-> 0]
            /\ ~modelOk /\ stores = 0)

\* enroll_fp went through all its steps and returned the slot.
C11_Witness ==
    /\ op = "enroll" /\ pc = "done" /\ exit = "success"
    /\ i = 2 /\ convOk = {1, 2} /\ modelOk /\ stores = 1

\* C12: get_fp right after a successful enroll_fp(slot), with the enrolled
\* finger captured and the search answered, returns a match for that slot,
\* with the sensor's confidence.
C12_EnrollThenVerify ==
    (/\ op = "get_fp" /\ pc = "done"
     /\ lastEnroll[1] # 0 /\ buf[1] = lastEnroll[2]
     /\ exit \in {"match", "nomatch"}) =>
        /\ exit = "match"
        /\ finger_id = lastEnroll[1]
        /\ retval = [t |-> "pair", v |-> <<lastEnroll[1], confidence>>]

\* C13: a call whose device could not be acquired (SimpleMFRC522() raised,
\* or the serial port could not be opened) still ends with a returned value,
\* not with an exception leaving it, and a token call still runs its release.
C13_AcquisitionFailureReturned ==
    /\ (op \in TokenOps /\ pc = "done" /\ session = "none") =>
            (exit # "raised" /\ cleanups = 1)
    /\ (script = "src/fpm.py" /\ pc = "exited" /\ ~uartOpen) =>
            outcome # "unhandled"

\* C14: a run whose command line names an operation (option "1": write for
\* the token scripts, get_fp for fpm.py; option "2" of fpm.py: enroll_fp; any
\* other command line of a token script: read) and that got its device at
\* import ends after exactly one call, of that operation.
C14_OneCallOfNamedOperation ==
    LET first == IF argv = <<>> THEN <<>> ELSE argv[1]
        named ==
            CASE script = "src/rfid.py" ->
                    IF first = str(1) THEN "write" ELSE "read"
              [] script = "hw/rfid.py" ->
                    IF first = str(1) THEN "hw_write" ELSE "hw_read"
              [] script = "src/fpm.py" ->
                    IF first = str(1) THEN "get_fp"
                    ELSE IF first = str(2) THEN "enroll" ELSE "none"
              [] OTHER -> "none"
    IN  (/\ op = "main" /\ pc = "exited" /\ named # "none"
         /\ (script = "src/fpm.py" => uartOpen)) =>
            calls = <<named>>

\* C15: a process ends with one of the outcomes success, timeout/no match and
\* fault, and with the exit status of that outcome (0, 1, 2); it does not end
\* with an unhandled exception.
C15_ExitCodeMatchesOutcome ==
    (op = "main" /\ pc = "exited") =>
        /\ outcome # "unhandled"
        /\ exitCode =
              IF outcome \in {"success", "match", "normal"} THEN 0
              ELSE IF outcome \in {"timeout", "nomatch"} THEN 1
              ELSE 2

\* C16: a write_rfid, read_rfid or enroll_fp call that was asked to cancel
\* while in flight ends as cancelled, and a token call among them has run its
\* release exactly once.
C16_CancelEndsOperation ==
    (op \in {"write", "read", "enroll"} /\ pc = "done" /\ cancelReq) =>
        /\ exit = "cancelled"
        /\ (op \in PollOps => cleanups = 1)

\* C18: in the polling loops of write_rfid and read_rfid and in the capture
\* loops of get_fp and enroll_fp, a probe of the device (r.read(),
\* get_image()) that is not the first of the call comes after a sleep since
\* the probe before it.
C18_SleepBetweenProbes ==
    [][(\/ op \in PollOps /\ pc = "probe" /\ pc' # pc
        \/ op \in SensorOps /\ pc = "capture" /\ (spin' # spin \/ pc' # pc))
            => sinceProbe # "probed"]_vars

\* C19: enroll_fp probes for the second image only after image_2_tz(1)
\* returned OK and the call has slept PAUSE_S seconds since; it sleeps there
\* only, so after image_2_tz(2) returned OK the time slept is still PAUSE_S.
C19_PauseBeforeSecondCapture ==
    /\ [][(/\ op = "enroll" /\ pc = "capture" /\ i = 2
           /\ (spin' # spin \/ pc' # pc))
            => (1 \in convOk /\ waited >= PAUSE_S * TICKS_PER_S)]_vars
    /\ [][waited' > waited =>
            (op = "enroll" /\ pc = "pause" /\ i = 1 /\ convOk = {1})]_vars
    /\ [](op = "enroll" /\ 2 \in convOk => waited = PAUSE_S * TICKS_PER_S)

\* enroll_fp has taken the second image, after the pause.
C19_Witness ==
    /\ op = "enroll" /\ pc = "convert" /\ i = 2
    /\ convOk = {1} /\ waited = PAUSE_S * TICKS_PER_S /\ image # 0

\* C20: a write_rfid call on its timeout path has called r.write no time;
\* the text on the token changes only in the r.write step that succeeds; and
\* the timeout check that finds the time up is followed by the finally block,
\* by no probe and no write.
C20_TimeoutWritesNothing ==
    /\ [](op = "write" /\ exit = "timeout" =>
            wrote = 0 /\ pc \in {"finally", "done"})
    /\ [][(op = "write" /\ tagData' # tagData) =>
            (pc = "write" /\ wrote' = 1 /\ exit' = "success")]_vars
    /\ [][(op = "write" /\ pc = "check" /\ elapsed > WriteTimeout
                /\ pc' # pc) =>
            (pc' = "finally" /\ exit' = "timeout" /\ wrote' = 0)]_vars

\* write_rfid is over on its timeout path with a token in the field that it
\* never wrote.
C20_Witness ==
    /\ op = "write" /\ pc = "done" /\ exit = "timeout"
    /\ wrote = 0 /\ tagPresent /\ tagData # str(arg)

=============================================================================
